---- MODULE Spec2Model ----
(***************************************************************************)
(* Model of db-mgr's container provisioning pipeline                       *)
(* (src/src/docker.rs, create_container / create_volume) together with the *)
(* bounded futures::channel::mpsc channel that carries its events and the  *)
(* container runtime (Docker daemon) it talks to.                          *)
(*                                                                         *)
(* A run is one call of create_container. Its task is modelled await by    *)
(* await; every runtime call may answer with any result the runtime state  *)
(* allows, or fail. The channel follows futures mpsc: a send is refused    *)
(* once the receiver is gone; an accepted message that lifts the count     *)
(* above the buffer parks the sender, whose send then completes only when  *)
(* the receiver takes a message or closes. `trace` is the history of a     *)
(* run (calls with results, sends, the drop of the receiver) that the      *)
(* properties are stated over.                                             *)
(***************************************************************************)
EXTENDS Naturals, Integers, Sequences, FiniteSets, TLC

\* ------------------------------------------------------------------ bounds
\* Longest pull stream explored (number of elements the stream yields).
MaxPull == 5

\* ------------------------------------------------------- program constants
\* channel(5): the buffer argument of the mpsc channel.
Buffer == 5

\* ------------------------------------------------------------ input sets
Runs == {"r1", "r2"}
FirstRun == "r1"
Names == {"pg", "my"}
VolNames == {"data", "conf"}

VARIABLES
    containers,   \* runtime: names of the containers that exist
    volumes,      \* runtime: names of the volumes that exist
    started,      \* runtime: names of the containers that were started
    pc,           \* per run: position of the spawned task
    cfg,          \* per run: the DbContainerConfig (name, voluems)
    volsLeft,     \* per run: volumes the for loop has not visited yet
    curVol,       \* per run: the volume create_volume is working on
    pullRes,      \* per run: the pull-stream element held in `result`
    outcome,      \* per run: result of the async block
    queue,        \* per run: messages buffered in the channel
    parked,       \* per run: the sending Sender is parked
    senders,      \* per run: number of live Senders (tx, tx2)
    closed,       \* per run: the Receiver was dropped
    delivered,    \* per run: events the consumer received, in order
    rxEnded,      \* per run: the consumer observed end-of-stream
    existing,     \* per run: what the runtime held when the run began
    trace,        \* per run: history of calls, sends and the receiver drop
    data,         \* add-container form: AddContainerState.data
    persist,      \* add-container form: AddContainerState.persist
    submitted,    \* add-container form: the last config handed to on_add
    typed,        \* add-container form: the text of each variable field
    nsIn,         \* namespacing: two (container name, volume name) pairs
    nsOut,        \* namespacing: the volume names produced for them
    labelled,     \* runtime: the labelled containers, in listing order
    listing,      \* get_containers: the calls made, with answers and results
    main_view,          \* DbMgrApp: what the main pane shows
    build_subscription, \* DbMgrApp: the spec of the run subscribed to, if any
    app_containers,     \* DbMgrApp: ids of the containers last loaded
    loads,              \* GetContainers commands still to answer
    tracked,            \* the stream the subscription tracker keeps alive
    handled,            \* the message update handled last
    envTrip             \* a container's variables on their way through the runtime

formVars == <<data, persist, submitted, typed>>

pipelineVars == <<containers, volumes, started, pc, cfg, volsLeft, curVol,
                  pullRes, outcome, queue, parked, senders, closed, delivered,
                  rxEnded, existing, trace>>

nsVars == <<nsIn, nsOut>>

listVars == <<labelled, listing>>

appVars == <<main_view, build_subscription, app_containers, loads, tracked, handled>>

envVars == <<envTrip>>

vars == <<pipelineVars, formVars, nsVars, listVars, appVars, envVars>>

runtimeVars == <<containers, volumes, started>>
chanVars == <<queue, parked, closed, delivered, rxEnded>>
taskVars == <<cfg, existing>>

\* ------------------------------------------------------------- events
Pulling == <<"Pulling">>
Building == <<"Building">>
Done == <<"Done">>
Error(msg) == <<"Error", msg>>

\* anyhow!("Container name conflict {}", name)
ConflictMsg(name) == <<"Container name conflict", name>>
\* anyhow!(resp) / `?` on a bollard error: the runtime's own message
DockerMsg(op, arg) == <<"docker", op, arg>>
\* `?` on a failed tx.send: the SendError's message
SendMsg == <<"send failed because receiver is gone">>

Running == <<"running">>
OkResult == <<"Ok">>
ErrResult(msg) == <<"Err", msg>>

NoCfg == [name |-> "", voluems |-> {}]

Entry(op, arg, res) == [op |-> op, arg |-> arg, res |-> res]

Log(r, op, arg, res) == trace' = [trace EXCEPT ![r] = Append(@, Entry(op, arg, res))]

\* ------------------------------------------------------------- Init
PipelineInit ==
    /\ containers \in SUBSET Names
    /\ volumes \in SUBSET VolNames
    /\ started = {}
    /\ pc = [r \in Runs |-> "idle"]
    /\ cfg = [r \in Runs |-> NoCfg]
    /\ volsLeft = [r \in Runs |-> {}]
    /\ curVol = [r \in Runs |-> ""]
    /\ pullRes = [r \in Runs |-> ""]
    /\ outcome = [r \in Runs |-> Running]
    /\ queue = [r \in Runs |-> <<>>]
    /\ parked = [r \in Runs |-> FALSE]
    /\ senders = [r \in Runs |-> 0]
    /\ closed = [r \in Runs |-> FALSE]
    /\ delivered = [r \in Runs |-> <<>>]
    /\ rxEnded = [r \in Runs |-> FALSE]
    /\ existing = [r \in Runs |-> [containers |-> {}, volumes |-> {}]]
    /\ trace = [r \in Runs |-> <<>>]

\* ------------------------------------------------------------- the form
\* Strings whose characters matter are sequences of one-character strings.
Str2(a, b) == <<a, b>>
Latest == <<"l", "a", "t", "e", "s", "t">>

\* DatabaseConfig entries of the configuration file: tags offered,
\* variables (the environment keys) and volumes (name -> mount path).
Images ==
    { [ image |-> "postgres",
        tags |-> << <<"1", "5">>, <<"1", "6">> >>,
        variables |-> { <<"P", "W">>, <<"D", "B">> },
        volumes |-> (<<"d">> :> "/data" @@ <<"_", "d">> :> "/conf") ],
      [ image |-> "redis",
        tags |-> << >>,
        variables |-> { <<"P", "W">> },
        volumes |-> (<<"d">> :> "/redis") ] }

NoImage == [image |-> "", tags |-> << >>, variables |-> {}, volumes |-> << >>]

\* Texts the operator can type into the name field.
Alphabet == {"a", "_", " "}
TypedNames == {<< >>} \cup {<<a>> : a \in Alphabet}
                 \cup {Str2(a, b) : a \in Alphabet, b \in Alphabet}

\* Texts the operator can type into an environment variable field.
TypedValues == {<< >>, <<"x">>}

EmptyConfig == [name |-> << >>, variables |-> << >>, image |-> "",
                voluems |-> << >>, tag |-> << >>]

NoData == [some |-> FALSE, config |-> EmptyConfig, image |-> NoImage]
NoSubmit == [some |-> FALSE, config |-> EmptyConfig, env |-> << >>,
             from |-> EmptyConfig, typed |-> << >>]

FormIdle ==
    /\ data = NoData
    /\ persist = TRUE
    /\ submitted = NoSubmit
    /\ typed = << >>

\* ReplaceSpaces that keeps the name as typed.
ReplaceSpacesNot(name) == name

\* name.replace(" ", "-")
ReplaceSpaces(name) == [i \in 1..Len(name) |-> IF name[i] = " " THEN "-" ELSE name[i]]

\* format!("db-mgr__{}", config.name)
NamespacedName(name) == <<"d", "b", "-", "m", "g", "r", "_", "_">> \o name

\* NamespacedVolume that leaves the volume's own name out.
NamespacedVolumePerContainer(cname, vname) == NamespacedName(cname)

\* format!("db-mgr__{}__{name}", config.name)
NamespacedVolume(cname, vname) == NamespacedName(cname) \o <<"_", "_">> \o vname

\* .map(|(name, value)| (format!(..), value)).collect(): a later entry with
\* the same key replaces an earlier one, so one entry per key remains.
NamespaceVolumes(cname, vols) ==
    LET keys == {NamespacedVolume(cname, v) : v \in DOMAIN vols}
    IN  [k \in keys |->
            vols[CHOOSE v \in DOMAIN vols : NamespacedVolume(cname, v) = k]]

\* .filter(|(_, value)| value != "").collect()
DropEmpty(variables) ==
    LET keep == {k \in DOMAIN variables : variables[k] # << >>}
    IN  [k \in keep |-> variables[k]]

\* FormatEnv without the quotes around the value.
FormatEnvUnquoted(name, value) == name \o <<"=">> \o value

\* format!("{name}=\"{value}\"")
FormatEnv(name, value) == name \o <<"=", "\"">> \o value \o <<"\"">>

\* container_config.variables.into_iter().map(format).collect::<Vec<_>>()
RECURSIVE EnvStrings(_)
EnvStrings(variables) ==
    IF DOMAIN variables = {} THEN << >>
    ELSE LET k == CHOOSE x \in DOMAIN variables : TRUE
             rest == [x \in DOMAIN variables \ {k} |-> variables[x]]
         IN  <<FormatEnv(k, variables[k])>> \o EnvStrings(rest)

SetConfig(c) == data' = [data EXCEPT !.config = c]

\* SelectContainer that takes the last tag the image offers.
SelectContainerLastTag(image) ==
    /\ data' = [some |-> TRUE,
                config |-> [name |-> << >>,
                            variables |-> << >>,
                            image |-> image.image,
                            voluems |-> image.volumes,
                            tag |-> IF Len(image.tags) > 0 THEN image.tags[Len(image.tags)]
                                    ELSE Latest],
                image |-> image]
    /\ typed' = [k \in image.variables |-> << >>]
    /\ UNCHANGED <<persist, submitted>>

\* Event::SelectContainer(image)
SelectContainer(image) ==
    /\ data' = [some |-> TRUE,
                config |-> [name |-> << >>,
                            variables |-> << >>,
                            image |-> image.image,
                            voluems |-> image.volumes,
                            tag |-> IF Len(image.tags) > 0 THEN image.tags[1]
                                    ELSE Latest],
                image |-> image]
    /\ typed' = [k \in image.variables |-> << >>]
    /\ UNCHANGED <<persist, submitted>>

\* Event::SelectedTag(tag), offered by the pick_list of the image's tags
SelectedTag(tag) ==
    /\ data.some
    /\ SetConfig([data.config EXCEPT !.tag = tag])
    /\ UNCHANGED <<persist, submitted, typed>>

\* Event::NameChanged(name)
NameChanged(name) ==
    /\ data.some
    /\ SetConfig([data.config EXCEPT !.name = ReplaceSpaces(name)])
    /\ UNCHANGED <<persist, submitted, typed>>

\* Event::EnvVarChanged { key, value }
EnvVarChanged(key, value) ==
    /\ data.some
    /\ LET old == data.config.variables IN
       IF value = << >>
       THEN SetConfig([data.config EXCEPT
                !.variables = [k \in DOMAIN old \ {key} |-> old[k]]])
       ELSE SetConfig([data.config EXCEPT
                !.variables = [k \in DOMAIN old \cup {key} |->
                                  IF k = key THEN value ELSE old[k]]])
    /\ typed' = [typed EXCEPT ![key] = value]
    /\ UNCHANGED <<persist, submitted>>

\* Event::Persist(voluems_state)
Persist(b) ==
    /\ persist' = b
    /\ IF data.some
       THEN SetConfig([data.config EXCEPT
                !.voluems = IF b THEN data.image.volumes ELSE << >>])
       ELSE UNCHANGED data
    /\ UNCHANGED <<submitted, typed>>

\* The config SubmitPressed hands to on_add.
NewConfig(config) ==
    [config EXCEPT
        !.voluems = NamespaceVolumes(config.name, config.voluems),
        !.variables = DropEmpty(config.variables),
        !.name = NamespacedName(config.name)]

\* Event::SubmitPressed, which the view offers when the button state is
\* Ready and the name is not empty; the config goes to on_add and from there
\* to create_container, which formats the environment.
SubmitPressed ==
    /\ data.some
    /\ data.config.name # << >>
    /\ submitted' = [some |-> TRUE,
                     config |-> NewConfig(data.config),
                     env |-> EnvStrings(NewConfig(data.config).variables),
                     from |-> data.config,
                     typed |-> typed]
    /\ UNCHANGED <<data, persist, typed>>

FormNext ==
    \/ \E image \in Images : SelectContainer(image)
    \/ \E i \in DOMAIN data.image.tags : SelectedTag(data.image.tags[i])
    \/ \E name \in TypedNames : NameChanged(name)
    \/ \E key \in data.image.variables, value \in TypedValues : EnvVarChanged(key, value)
    \/ \E b \in BOOLEAN : Persist(b)
    \/ SubmitPressed

\* ------------------------------------------------------------- namespacing inputs
\* Names the form can hold (NameChanged output) when submit is offered.
StoredNames == {ReplaceSpaces(n) : n \in TypedNames \ {<< >>}}

\* Volume names the configured images declare.
VolumeNames == UNION {DOMAIN image.volumes : image \in Images}

NsIdle ==
    /\ nsIn = << >>
    /\ nsOut = << >>

\* SubmitPressed's volume naming applied to both pairs.
ApplyNamespacing ==
    /\ nsOut = << >>
    /\ nsOut' = <<NamespacedVolume(nsIn[1][1], nsIn[1][2]),
                  NamespacedVolume(nsIn[2][1], nsIn[2][2])>>
    /\ UNCHANGED nsIn

\* ------------------------------------------------------------- listing
\* Longest list of labelled containers explored.
MaxListed == 3

None == "none"

\* What inspect_container answers for a labelled container (every field of
\* the response is optional) next to the id its list summary carries.
Labelled(sid, id, name, image, state, env, mounts) ==
    [sid |-> sid, id |-> id, name |-> name, image |-> image, state |-> state,
     env |-> env, mounts |-> mounts]

Mount(name, source, destination) ==
    [name |-> name, source |-> source, destination |-> destination]

LabelledKinds ==
    { Labelled("c1", "c1", "/pg", "postgres:15", "running",
               << <<"P", "W", "=", "\"", "x", "\"">>, <<"T", "Z">> >>,
               << Mount("vol", None, "/data"), Mount(None, "/src", "/conf"),
                  Mount("tmp", None, None) >>),
      Labelled("c2", "c2", "/my", "mysql:8", "exited",
               << <<"A", "=", "b", "=", "c">> >>, << >>),
      Labelled(None, "c3", "/noid", "redis:7", "running", << >>, << >>),
      Labelled("c4", "c4", None, "redis:7", "running", << >>, << >>),
      Labelled("c5", "c5", "/noimage", None, "running", << >>, << >>),
      Labelled("c6", "c6", "/nostate", "redis:7", None, << >>, << >>) }

RECURSIVE SeqsOf(_, _)
\* Sequences of at most n distinct elements of S.
SeqsOf(S, n) ==
    IF n = 0 THEN {<< >>}
    ELSE LET shorter == SeqsOf(S, n - 1)
             longest == {t \in shorter : Len(t) = n - 1}
         IN  shorter \cup
             UNION {{Append(t, x) : x \in S \ {t[i] : i \in DOMAIN t}} : t \in longest}

ListIdle ==
    /\ labelled = << >>
    /\ listing = << >>

\* entry.split_once("=") : (name, var), or (entry, "") without a '='
ParseEnv(entry) ==
    IF \E i \in DOMAIN entry : entry[i] = "="
    THEN LET i == CHOOSE i \in DOMAIN entry :
                     /\ entry[i] = "="
                     /\ \A j \in 1..(i - 1) : entry[j] # "="
         IN  <<SubSeq(entry, 1, i - 1), SubSeq(entry, i + 1, Len(entry))>>
    ELSE <<entry, << >>>>

\* e.into_iter().map(split_once).collect() into a HashMap: the last entry of
\* a name wins.
ParseVariables(env) ==
    LET names == {ParseEnv(env[i])[1] : i \in DOMAIN env}
    IN  [n \in names |->
            LET last == CHOOSE i \in DOMAIN env :
                           /\ ParseEnv(env[i])[1] = n
                           /\ \A j \in DOMAIN env : ParseEnv(env[j])[1] = n => j <= i
            IN  ParseEnv(env[last])[2]]

\* mount.name.or_else(|| mount.source)
MountKey(m) == IF m.name # None THEN m.name ELSE m.source

\* mounts.into_iter().filter_map(..).collect()
ParseVolumes(mounts) ==
    LET ok == {i \in DOMAIN mounts :
                  MountKey(mounts[i]) # None /\ mounts[i].destination # None}
        keys == {MountKey(mounts[i]) : i \in ok}
    IN  [k \in keys |->
            LET last == CHOOSE i \in ok :
                           /\ MountKey(mounts[i]) = k
                           /\ \A j \in ok : MountKey(mounts[j]) = k => j <= i
            IN  mounts[last].destination]

\* Projectable that does not ask for the state.
ProjectableWithoutState(info) ==
    /\ info.id # None
    /\ info.name # None
    /\ info.image # None

\* The second filter_map yields Some: id, name, image and state resolve.
Projectable(info) ==
    /\ info.id # None
    /\ info.name # None
    /\ info.image # None
    /\ info.state # None

\* Some(DbContainer { .. })
Project(info) ==
    [id |-> info.id, name |-> info.name, image |-> info.image,
     state |-> info.state,
     volumes |-> ParseVolumes(info.mounts),
     variables |-> ParseVariables(info.env)]

\* Inspected that gives up at the first summary it cannot inspect.
InspectedUntilFailure(summaries, failing) ==
    LET bad == {i \in DOMAIN summaries : summaries[i].sid = None \/ i \in failing}
        upto == IF bad = {} THEN Len(summaries)
                ELSE (CHOOSE i \in bad : \A j \in bad : i <= j) - 1
    IN  SubSeq(summaries, 1, upto)

\* The first filter_map: the summaries that carry an id and whose inspect
\* call succeeded, in order (failing: the positions whose inspect failed).
Inspected(summaries, failing) ==
    LET pos == SelectSeq([i \in 1..Len(summaries) |-> i],
                         LAMBDA i : summaries[i].sid # None /\ i \notin failing)
    IN  [j \in 1..Len(pos) |-> summaries[pos[j]]]

\* get_containers after a successful list call.
ListResult(summaries, failing) ==
    LET kept == SelectSeq(Inspected(summaries, failing), Projectable)
    IN  [j \in 1..Len(kept) |-> Project(kept[j])]

\* One call of get_containers: the list call fails or answers with the
\* labelled containers; each inspect call may fail.
GetContainers ==
    /\ Len(listing) < 2
    /\ \E listOk \in BOOLEAN,
          failing \in SUBSET {i \in DOMAIN labelled : labelled[i].sid # None} :
          /\ ~listOk => failing = {}
          /\ listing' = Append(listing,
                [ok |-> listOk, failing |-> failing, err |-> ~listOk,
                 result |-> IF listOk THEN ListResult(labelled, failing) ELSE << >>])
    /\ UNCHANGED labelled

\* ------------------------------------------------------------- the application state
\* MainViewState
ViewNone == [view |-> "None", index |-> 0, button |-> "None"]

ViewOf(index) == [view |-> "ViewContainer", index |-> index, button |-> "None"]

CreateView(button) == [view |-> "CreateContainer", index |-> 0, button |-> button]

\* build_subscription: None
NoSubscription == [some |-> FALSE, config |-> NoCfg]

\* The subscription tracker keeps no stream.
NoStream == [some |-> FALSE, name |-> "", run |-> ""]

\* What update was called with: the message, and whether a run was
\* subscribed to (build_subscription was Some) when it arrived.
Handled(msg, during) == [msg |-> msg, during |-> during]

\* DbMgrApp::new: nothing loaded, GetContainers issued.
AppIdle ==
    /\ main_view = ViewNone
    /\ build_subscription = NoSubscription
    /\ app_containers = << >>
    /\ loads = 1
    /\ tracked = NoStream
    /\ handled = Handled("", FALSE)

\* ------------------------------------------------------------- variables through the runtime
\* Values a variable of a submitted spec can have (never empty).
EnvValues == {<<"x">>, <<"x", "y">>, <<"=">>, <<"\"">>, <<"a", "=", "b">>}

\* Variables of a submitted spec: some of the image's names, each with a value.
EnvMaps ==
    UNION {[keys -> EnvValues] : keys \in SUBSET {<<"P", "W">>, <<"D", "B">>}}

NoEnvTrip == [stage |-> "idle", variables |-> << >>, env |-> << >>, listed |-> << >>]

EnvIdle == envTrip = NoEnvTrip

\* create_container: the variables are formatted and handed to the runtime
\* as the container's Config.env, which the runtime stores as given.
CreateWithEnv ==
    /\ envTrip.stage = "submitted"
    /\ envTrip' = [envTrip EXCEPT !.stage = "created",
                                  !.env = EnvStrings(envTrip.variables)]

\* get_containers: the variables of the container are read back from the
\* Config.env of its inspect answer.
ListEnv ==
    /\ envTrip.stage = "created"
    /\ envTrip' = [envTrip EXCEPT !.stage = "listed",
                                  !.listed = ParseVariables(envTrip.env)]

\* ------------------------------------------------------------- the task
\* create_container up to tokio::spawn: channel(5), tx.clone(), spawn.
Start(r) ==
    /\ pc[r] = "idle"
    /\ \E n \in Names, vs \in SUBSET VolNames :
          /\ cfg' = [cfg EXCEPT ![r] = [name |-> n, voluems |-> vs]]
          /\ volsLeft' = [volsLeft EXCEPT ![r] = vs]
    /\ pc' = [pc EXCEPT ![r] = "inspect"]
    /\ senders' = [senders EXCEPT ![r] = 2]
    /\ existing' = [existing EXCEPT ![r] = [containers |-> containers,
                                             volumes |-> volumes]]
    /\ UNCHANGED <<runtimeVars, curVol, pullRes, outcome, chanVars, trace>>

\* Fail with the .then closure left out: the error is dropped, no terminal
\* event is sent.
FailSilently(r, msg) ==
    /\ pc' = [pc EXCEPT ![r] = "finished"]
    /\ outcome' = [outcome EXCEPT ![r] = ErrResult(msg)]
    /\ senders' = [senders EXCEPT ![r] = 0]

\* The async block returns Err(msg): tx is dropped with the block and the
\* .then closure takes over with tx2.
Fail(r, msg) ==
    /\ pc' = [pc EXCEPT ![r] = "sendTerminal"]
    /\ outcome' = [outcome EXCEPT ![r] = ErrResult(msg)]
    /\ senders' = [senders EXCEPT ![r] = 1]

\* The async block returns Ok(()).
Succeed(r) ==
    /\ pc' = [pc EXCEPT ![r] = "sendTerminal"]
    /\ outcome' = [outcome EXCEPT ![r] = OkResult]
    /\ senders' = [senders EXCEPT ![r] = 1]

Goto(r, label) ==
    /\ pc' = [pc EXCEPT ![r] = label]
    /\ UNCHANGED <<outcome, senders>>

\* InspectContainer with the Ok(_) arm falling through like the 404 arm.
InspectContainerNoConflict(r) ==
    /\ pc[r] = "inspect"
    /\ \E res \in {"404", "ok", "err"} :
          /\ res = "404" => cfg[r].name \notin containers
          /\ res = "ok" => cfg[r].name \in containers
          /\ Log(r, "inspect_container", cfg[r].name, res)
          /\ CASE res \in {"404", "ok"} -> Goto(r, "pull")
               [] OTHER -> Fail(r, DockerMsg("inspect_container", cfg[r].name))
    /\ UNCHANGED <<runtimeVars, taskVars, volsLeft, curVol, pullRes, chanVars>>

\* docker.inspect_container(&container_config.name, None).await and its match
InspectContainer(r) ==
    /\ pc[r] = "inspect"
    /\ \E res \in {"404", "ok", "err"} :
          /\ res = "404" => cfg[r].name \notin containers
          /\ res = "ok" => cfg[r].name \in containers
          /\ Log(r, "inspect_container", cfg[r].name, res)
          /\ CASE res = "404" -> Goto(r, "pull")
               [] res = "ok" -> Fail(r, ConflictMsg(cfg[r].name))
               [] OTHER -> Fail(r, DockerMsg("inspect_container", cfg[r].name))
    /\ UNCHANGED <<runtimeVars, taskVars, volsLeft, curVol, pullRes, chanVars>>

NumPulled(r) == Len(SelectSeq(trace[r], LAMBDA e : e.op = "pull_next" /\ e.res # "end"))

\* PullNext with the element's `result?` ahead of the Pulling send.
PullNextChecksFirst(r) ==
    /\ pc[r] = "pull"
    /\ \E res \in {"item", "err", "end"} :
          /\ res # "end" => NumPulled(r) < MaxPull
          /\ Log(r, "pull_next", "", res)
          /\ pullRes' = [pullRes EXCEPT ![r] = res]
          /\ CASE res = "end" -> Goto(r, "sendBuilding")
               [] res = "err" -> Fail(r, DockerMsg("pull_next", ""))
               [] OTHER -> Goto(r, "sendPulling")
    /\ UNCHANGED <<runtimeVars, taskVars, volsLeft, curVol, chanVars>>

\* PullNext with the Building send left out after the stream ended.
PullNextNoBuilding(r) ==
    /\ pc[r] = "pull"
    /\ \E res \in {"item", "err", "end"} :
          /\ res # "end" => NumPulled(r) < MaxPull
          /\ Log(r, "pull_next", "", res)
          /\ pullRes' = [pullRes EXCEPT ![r] = res]
          /\ Goto(r, IF res = "end" THEN "volumes" ELSE "sendPulling")
    /\ UNCHANGED <<runtimeVars, taskVars, volsLeft, curVol, chanVars>>

\* image_pull_stream.next().await
PullNext(r) ==
    /\ pc[r] = "pull"
    /\ \E res \in {"item", "err", "end"} :
          /\ res # "end" => NumPulled(r) < MaxPull
          /\ Log(r, "pull_next", "", res)
          /\ pullRes' = [pullRes EXCEPT ![r] = res]
          /\ Goto(r, IF res = "end" THEN "sendBuilding" ELSE "sendPulling")
    /\ UNCHANGED <<runtimeVars, taskVars, volsLeft, curVol, chanVars>>

\* ------------------------------------------------------------- the channel
\* The event a suspended send is about to put into the channel.
EventToSend(r) ==
    CASE pc[r] = "sendPulling" -> Pulling
      [] pc[r] = "sendBuilding" -> Building
      [] pc[r] = "sendTerminal" ->
            IF outcome[r] = OkResult THEN Done ELSE Error(outcome[r][2])

\* ParksAfter of a channel without backpressure: the sender never parks.
ParksAfterNever(q) == FALSE

\* Sender: a message is accepted while the receiver lives; the sender parks
\* when the accepted message pushes the count above the buffer.
ParksAfter(q) == Len(q) > Buffer

\* AfterPulling without the `result?`: a failed element is ignored.
AfterPullingUnchecked(r) == Goto(r, "pull")

\* What follows `tx.send(Pulling).await?` : the `result?` of the element.
AfterPulling(r) ==
    IF pullRes[r] = "err"
    THEN Fail(r, DockerMsg("pull_next", ""))
    ELSE Goto(r, "pull")

\* What follows a completed send, by the place of the send in the task.
AfterSend(r) ==
    CASE pc[r] \in {"sendPulling", "flushPulling"} -> AfterPulling(r)
      [] pc[r] \in {"sendBuilding", "flushBuilding"} -> Goto(r, "volumes")
      [] pc[r] \in {"sendTerminal", "flushTerminal"} ->
            /\ pc' = [pc EXCEPT ![r] = "finished"]
            /\ senders' = [senders EXCEPT ![r] = 0]
            /\ UNCHANGED outcome

\* AfterSendError without the `?` on tx.send: the task carries on.
AfterSendErrorIgnored(r) ==
    CASE pc[r] = "sendPulling" -> AfterPulling(r)
      [] pc[r] = "sendBuilding" -> Goto(r, "volumes")
      [] pc[r] = "sendTerminal" ->
            /\ pc' = [pc EXCEPT ![r] = "finished"]
            /\ senders' = [senders EXCEPT ![r] = 0]
            /\ UNCHANGED outcome

\* What follows a send that returned Err (receiver gone): `?` ends the async
\* block; the result of the terminal send is ignored.
AfterSendError(r) ==
    IF pc[r] = "sendTerminal"
    THEN /\ pc' = [pc EXCEPT ![r] = "finished"]
         /\ senders' = [senders EXCEPT ![r] = 0]
         /\ UNCHANGED outcome
    ELSE Fail(r, SendMsg)

FlushLabel(r) ==
    CASE pc[r] = "sendPulling" -> "flushPulling"
      [] pc[r] = "sendBuilding" -> "flushBuilding"
      [] pc[r] = "sendTerminal" -> "flushTerminal"

\* tx.send(ev).await : poll_ready, start_send, then poll_flush.
SendEvent(r) ==
    /\ pc[r] \in {"sendPulling", "sendBuilding", "sendTerminal"}
    /\ IF closed[r]
       THEN /\ Log(r, "send", EventToSend(r)[1], "disconnected")
            /\ AfterSendError(r)
            /\ UNCHANGED <<queue, parked>>
       ELSE /\ Log(r, "send", EventToSend(r)[1], "ok")
            /\ queue' = [queue EXCEPT ![r] = Append(@, EventToSend(r))]
            /\ IF ParksAfter(queue'[r])
               THEN /\ parked' = [parked EXCEPT ![r] = TRUE]
                    /\ Goto(r, FlushLabel(r))
               ELSE /\ UNCHANGED parked
                    /\ AfterSend(r)
    /\ UNCHANGED <<runtimeVars, taskVars, volsLeft, curVol, pullRes, closed, delivered, rxEnded>>

\* poll_flush of a parked sender: ready once the receiver unparked it (by
\* taking a message, or by closing the channel).
FlushEvent(r) ==
    /\ pc[r] \in {"flushPulling", "flushBuilding", "flushTerminal"}
    /\ ~parked[r]
    /\ AfterSend(r)
    /\ UNCHANGED <<runtimeVars, taskVars, volsLeft, curVol, pullRes, chanVars, trace>>

\* ------------------------------------------------------------- volumes
\* InspectVolume with the Ok(_) arm falling through like the 404 arm.
InspectVolumeNoConflict(r) ==
    /\ pc[r] = "volumes"
    /\ volsLeft[r] # {}
    /\ \E v \in volsLeft[r], res \in {"404", "ok", "err"} :
          /\ res = "404" => v \notin volumes
          /\ res = "ok" => v \in volumes
          /\ Log(r, "inspect_volume", v, res)
          /\ curVol' = [curVol EXCEPT ![r] = v]
          /\ CASE res \in {"404", "ok"} -> Goto(r, "createVolume")
               [] OTHER -> Fail(r, DockerMsg("inspect_volume", v))
    /\ UNCHANGED <<runtimeVars, taskVars, volsLeft, pullRes, chanVars>>

\* InspectVolume that takes an existing volume as provisioned and goes on
\* to the next one.
InspectVolumeReusesExisting(r) ==
    /\ pc[r] = "volumes"
    /\ volsLeft[r] # {}
    /\ \E v \in volsLeft[r], res \in {"404", "ok", "err"} :
          /\ res = "404" => v \notin volumes
          /\ res = "ok" => v \in volumes
          /\ Log(r, "inspect_volume", v, res)
          /\ curVol' = [curVol EXCEPT ![r] = v]
          /\ CASE res = "404" -> Goto(r, "createVolume") /\ UNCHANGED volsLeft
               [] res = "ok" -> /\ Goto(r, "volumes")
                                /\ volsLeft' = [volsLeft EXCEPT ![r] = @ \ {v}]
               [] OTHER -> Fail(r, DockerMsg("inspect_volume", v)) /\ UNCHANGED volsLeft
    /\ UNCHANGED <<runtimeVars, taskVars, pullRes, chanVars>>

\* InspectVolume that treats every inspect error like a 404.
InspectVolumeErrIgnored(r) ==
    /\ pc[r] = "volumes"
    /\ volsLeft[r] # {}
    /\ \E v \in volsLeft[r], res \in {"404", "ok", "err"} :
          /\ res = "404" => v \notin volumes
          /\ res = "ok" => v \in volumes
          /\ Log(r, "inspect_volume", v, res)
          /\ curVol' = [curVol EXCEPT ![r] = v]
          /\ CASE res = "ok" -> Fail(r, ConflictMsg(v))
               [] OTHER -> Goto(r, "createVolume")
    /\ UNCHANGED <<runtimeVars, taskVars, volsLeft, pullRes, chanVars>>

\* create_volume: docker.inspect_volume(name).await and its match, for the
\* next entry of container_config.voluems.iter() (HashMap order: any).
InspectVolume(r) ==
    /\ pc[r] = "volumes"
    /\ volsLeft[r] # {}
    /\ \E v \in volsLeft[r], res \in {"404", "ok", "err"} :
          /\ res = "404" => v \notin volumes
          /\ res = "ok" => v \in volumes
          /\ Log(r, "inspect_volume", v, res)
          /\ curVol' = [curVol EXCEPT ![r] = v]
          /\ CASE res = "404" -> Goto(r, "createVolume")
               [] res = "ok" -> Fail(r, ConflictMsg(v))
               [] OTHER -> Fail(r, DockerMsg("inspect_volume", v))
    /\ UNCHANGED <<runtimeVars, taskVars, volsLeft, pullRes, chanVars>>

\* CreateVolume without the ?: a failed create is skipped over.
CreateVolumeUnchecked(r) ==
    /\ pc[r] = "createVolume"
    /\ \E res \in {"ok", "err"} :
          /\ Log(r, "create_volume", curVol[r], res)
          /\ volumes' = IF res = "ok" THEN volumes \cup {curVol[r]} ELSE volumes
          /\ volsLeft' = [volsLeft EXCEPT ![r] = @ \ {curVol[r]}]
          /\ Goto(r, "volumes")
    /\ UNCHANGED <<containers, started, taskVars, curVol, pullRes, chanVars>>

\* create_volume: docker.create_volume(..).await?
CreateVolume(r) ==
    /\ pc[r] = "createVolume"
    /\ \E res \in {"ok", "err"} :
          /\ Log(r, "create_volume", curVol[r], res)
          /\ IF res = "ok"
             THEN /\ volumes' = volumes \cup {curVol[r]}
                  /\ volsLeft' = [volsLeft EXCEPT ![r] = @ \ {curVol[r]}]
                  /\ Goto(r, "volumes")
             ELSE /\ UNCHANGED <<volumes, volsLeft>>
                  /\ Fail(r, DockerMsg("create_volume", curVol[r]))
    /\ UNCHANGED <<containers, started, taskVars, curVol, pullRes, chanVars>>

\* CreateContainer that cleans up on failure: the volumes of the spec are
\* removed again when the create call fails.
CreateContainerRollback(r) ==
    /\ pc[r] = "volumes"
    /\ volsLeft[r] = {}
    /\ \E res \in {"ok", "err"} :
          /\ res = "ok" => cfg[r].name \notin containers
          /\ Log(r, "create_container", cfg[r].name, res)
          /\ IF res = "ok"
             THEN /\ containers' = containers \cup {cfg[r].name}
                  /\ UNCHANGED volumes
                  /\ Goto(r, "start")
             ELSE /\ UNCHANGED containers
                  /\ volumes' = volumes \ cfg[r].voluems
                  /\ Fail(r, DockerMsg("create_container", cfg[r].name))
    /\ UNCHANGED <<started, taskVars, volsLeft, curVol, pullRes, chanVars>>

\* CreateContainer without the ?: a rejected create is followed by the
\* start call all the same.
CreateContainerUnchecked(r) ==
    /\ pc[r] = "volumes"
    /\ volsLeft[r] = {}
    /\ \E res \in {"ok", "err"} :
          /\ res = "ok" => cfg[r].name \notin containers
          /\ Log(r, "create_container", cfg[r].name, res)
          /\ containers' = IF res = "ok" THEN containers \cup {cfg[r].name} ELSE containers
          /\ UNCHANGED volumes
          /\ Goto(r, "start")
    /\ UNCHANGED <<started, taskVars, volsLeft, curVol, pullRes, chanVars>>

\* docker.create_container(..).await? after the volume loop; the runtime
\* rejects a name that exists.
CreateContainer(r) ==
    /\ pc[r] = "volumes"
    /\ volsLeft[r] = {}
    /\ \E res \in {"ok", "err"} :
          /\ res = "ok" => cfg[r].name \notin containers
          /\ Log(r, "create_container", cfg[r].name, res)
          /\ IF res = "ok"
             THEN /\ containers' = containers \cup {cfg[r].name}
                  /\ Goto(r, "start")
             ELSE /\ UNCHANGED containers
                  /\ Fail(r, DockerMsg("create_container", cfg[r].name))
    /\ UNCHANGED <<volumes, started, taskVars, volsLeft, curVol, pullRes, chanVars>>

\* StartContainer without the `?`: a failed start still returns Ok(()).
StartContainerUnchecked(r) ==
    /\ pc[r] = "start"
    /\ \E res \in {"ok", "err"} :
          /\ res = "ok" => cfg[r].name \in containers
          /\ Log(r, "start_container", cfg[r].name, res)
          /\ started' = IF res = "ok" THEN started \cup {cfg[r].name} ELSE started
          /\ Succeed(r)
    /\ UNCHANGED <<containers, volumes, taskVars, volsLeft, curVol, pullRes, chanVars>>

\* docker.start_container(&container_name, None).await? ; Ok(())
StartContainer(r) ==
    /\ pc[r] = "start"
    /\ \E res \in {"ok", "err"} :
          /\ res = "ok" => cfg[r].name \in containers
          /\ Log(r, "start_container", cfg[r].name, res)
          /\ IF res = "ok"
             THEN /\ started' = started \cup {cfg[r].name}
                  /\ Succeed(r)
             ELSE /\ UNCHANGED started
                  /\ Fail(r, DockerMsg("start_container", cfg[r].name))
    /\ UNCHANGED <<containers, volumes, taskVars, volsLeft, curVol, pullRes, chanVars>>

\* ------------------------------------------------------------- the consumer
\* Receive taking the newest buffered message instead of the oldest.
ReceiveNewest(r) ==
    /\ pc[r] # "idle"
    /\ ~closed[r]
    /\ queue[r] # <<>>
    /\ delivered' = [delivered EXCEPT ![r] = Append(@, queue[r][Len(queue[r])])]
    /\ queue' = [queue EXCEPT ![r] = SubSeq(@, 1, Len(@) - 1)]
    /\ parked' = [parked EXCEPT ![r] = FALSE]
    /\ UNCHANGED <<runtimeVars, pc, taskVars, volsLeft, curVol, pullRes, outcome,
                   senders, closed, rxEnded, trace>>

\* Receiver::poll_next with a message buffered: take it, unpark a sender.
Receive(r) ==
    /\ pc[r] # "idle"
    /\ ~closed[r]
    /\ queue[r] # <<>>
    /\ delivered' = [delivered EXCEPT ![r] = Append(@, Head(queue[r]))]
    /\ queue' = [queue EXCEPT ![r] = Tail(@)]
    /\ parked' = [parked EXCEPT ![r] = FALSE]
    /\ UNCHANGED <<runtimeVars, pc, taskVars, volsLeft, curVol, pullRes, outcome,
                   senders, closed, rxEnded, trace>>

\* Receiver::poll_next with nothing buffered and every sender gone: None.
ReceiveEnd(r) ==
    /\ pc[r] # "idle"
    /\ ~closed[r]
    /\ ~rxEnded[r]
    /\ queue[r] = <<>>
    /\ senders[r] = 0
    /\ rxEnded' = [rxEnded EXCEPT ![r] = TRUE]
    /\ UNCHANGED <<runtimeVars, pc, taskVars, volsLeft, curVol, pullRes, outcome,
                   senders, queue, parked, closed, delivered, trace>>

\* DropReceiver that does not wake a parked sender.
DropReceiverKeepsParked(r) ==
    /\ pc[r] # "idle"
    /\ ~closed[r]
    /\ ~rxEnded[r]
    /\ closed' = [closed EXCEPT ![r] = TRUE]
    /\ queue' = [queue EXCEPT ![r] = <<>>]
    /\ Log(r, "receiver_dropped", pc[r], "")
    /\ UNCHANGED <<runtimeVars, pc, taskVars, volsLeft, curVol, pullRes, outcome,
                   senders, delivered, rxEnded, parked>>

\* The consumer drops the Receiver: the channel closes, buffered messages
\* are discarded and parked senders are woken. The history notes where the
\* task stood.
DropReceiver(r) ==
    /\ pc[r] # "idle"
    /\ ~closed[r]
    /\ ~rxEnded[r]
    /\ closed' = [closed EXCEPT ![r] = TRUE]
    /\ queue' = [queue EXCEPT ![r] = <<>>]
    /\ parked' = [parked EXCEPT ![r] = FALSE]
    /\ Log(r, "receiver_dropped", pc[r], "")
    /\ UNCHANGED <<runtimeVars, pc, taskVars, volsLeft, curVol, pullRes, outcome,
                   senders, delivered, rxEnded>>

\* ------------------------------------------------------------- specification
Step(r) ==
    \/ InspectContainer(r)
    \/ PullNext(r)
    \/ SendEvent(r)
    \/ FlushEvent(r)
    \/ InspectVolume(r)
    \/ CreateVolume(r)
    \/ CreateContainer(r)
    \/ StartContainer(r)
    \/ Receive(r)
    \/ ReceiveEnd(r)
    \/ DropReceiver(r)

PipelineNext ==
    \/ Start(FirstRun)
    \/ \E r \in Runs : Step(r)

Init == PipelineInit /\ FormIdle /\ NsIdle /\ ListIdle /\ AppIdle /\ EnvIdle

Next == PipelineNext /\ UNCHANGED <<formVars, nsVars, listVars, appVars, envVars>>

Spec == Init /\ [][Next]_vars

TypeOK ==
    /\ containers \subseteq Names
    /\ volumes \subseteq VolNames
    /\ started \subseteq containers
    /\ \A r \in Runs :
          /\ Len(queue[r]) <= Buffer + 1
          /\ senders[r] \in 0..2
          /\ volsLeft[r] \subseteq cfg[r].voluems

\* ------------------------------------------------------------- vocabulary
RuntimeOps == {"inspect_container", "pull_next", "inspect_volume",
               "create_volume", "create_container", "start_container"}
MutatingOps == {"pull_next", "create_volume", "create_container", "start_container"}

\* The runtime calls of a run, in the order they were made.
Calls(r) == SelectSeq(trace[r], LAMBDA e : e.op \in RuntimeOps)

\* A runtime call that makes the async block return Err.
Failed(e) ==
    \/ e.op \in {"inspect_container", "inspect_volume"} /\ e.res # "404"
    \/ e.op = "pull_next" /\ e.res = "err"
    \/ e.op \in {"create_volume", "create_container", "start_container"} /\ e.res # "ok"

\* The message of a failed runtime call.
MsgOf(e) ==
    IF e.op \in {"inspect_container", "inspect_volume"} /\ e.res = "ok"
    THEN ConflictMsg(e.arg)
    ELSE DockerMsg(e.op, e.arg)

IsTerminal(ev) == ev[1] \in {"Done", "Error"}
Count(seq, Test(_)) == Len(SelectSeq(seq, Test))
Last(seq) == seq[Len(seq)]

\* Everything the channel accepted that the consumer has or can still get.
Emitted(r) == delivered[r] \o queue[r]

\* n Pulling events.
Pullings(n) == [i \in 1..n |-> Pulling]

Has(r, op, arg, res) == \E i \in DOMAIN trace[r] : trace[r][i] = Entry(op, arg, res)

\* The run passed the container name check and no runtime call failed.
AllCallsSucceeded(r) ==
    /\ Has(r, "inspect_container", cfg[r].name, "404")
    /\ \A i \in DOMAIN trace[r] : ~Failed(trace[r][i])

\* ------------------------------------------------------------- claims

\* C1: in every run whose consumer keeps receiving, at most one terminal
\* event (Done or Error) is ever delivered and nothing is delivered after
\* it; once the task has finished, exactly one terminal event was emitted and
\* it is the last one; and when the consumer observes end-of-stream both
\* senders are gone, nothing is buffered and the delivered sequence ends
\* with its single terminal event.
C1_OneTerminalEventLast ==
    \A r \in Runs :
        /\ Count(delivered[r], IsTerminal) <= 1
        /\ \A i \in DOMAIN delivered[r] :
              IsTerminal(delivered[r][i]) => i = Len(delivered[r])
        /\ (~closed[r] /\ pc[r] = "finished") =>
              /\ Count(Emitted(r), IsTerminal) = 1
              /\ IsTerminal(Last(Emitted(r)))
        /\ rxEnded[r] =>
              /\ senders[r] = 0 /\ queue[r] = <<>> /\ pc[r] = "finished"
              /\ Count(delivered[r], IsTerminal) = 1
              /\ IsTerminal(Last(delivered[r]))

\* A consumer saw a whole run of several events through to end-of-stream.
C1_Witness ==
    \E r \in Runs :
        /\ rxEnded[r]
        /\ Len(delivered[r]) >= 3
        /\ IsTerminal(Last(delivered[r]))

\* C2: when the name is unused and every runtime call succeeds, the
\* delivered sequence is one or more Pulling, then one Building, then one
\* Done.
C2_SuccessSequence ==
    \A r \in Runs :
        (rxEnded[r] /\ AllCallsSucceeded(r)) =>
            \E n \in 1..(MaxPull + 1) :
                delivered[r] = Pullings(n) \o <<Building, Done>>

\* C3: when the pull stream yields no element and Building is delivered, a
\* Pulling event was delivered before it.
C3_PullingEvenWhenCached ==
    \A r \in Runs :
        \A i \in DOMAIN delivered[r] :
            (delivered[r][i] = Building /\ NumPulled(r) = 0) =>
                \E j \in 1..(i - 1) : delivered[r][j] = Pulling

\* C4: when inspect-by-name finds the container, that inspect is the only
\* runtime call of the run, the only event the run ever emits is the Error
\* naming the container, and a consumer that reads to the end has received
\* exactly that one event.
C4_ContainerConflict ==
    \A r \in Runs :
        Has(r, "inspect_container", cfg[r].name, "ok") =>
            /\ Calls(r) = <<Entry("inspect_container", cfg[r].name, "ok")>>
            /\ Emitted(r) \in {<<>>, <<Error(ConflictMsg(cfg[r].name))>>}
            /\ (~closed[r] /\ pc[r] = "finished") =>
                  Emitted(r) = <<Error(ConflictMsg(cfg[r].name))>>
            /\ rxEnded[r] => delivered[r] = <<Error(ConflictMsg(cfg[r].name))>>

\* The consumer of a run whose name was taken read its stream to the end.
C4_Witness ==
    \E r \in Runs :
        /\ cfg[r].name \in existing[r].containers
        /\ Has(r, "inspect_container", cfg[r].name, "ok")
        /\ rxEnded[r]

\* C5 (as stated): when the container name is unused and a volume name of
\* the spec already exists, the run delivers exactly one event, the Error
\* naming a colliding volume.
C5_VolumeConflictSingleEvent ==
    \A r \in Runs :
        ( /\ rxEnded[r]
          /\ cfg[r].name \notin existing[r].containers
          /\ Has(r, "inspect_container", cfg[r].name, "404")
          /\ \E v \in cfg[r].voluems \cap existing[r].volumes :
                Has(r, "inspect_volume", v, "ok") ) =>
            \E v \in cfg[r].voluems \cap existing[r].volumes :
                delivered[r] = <<Error(ConflictMsg(v))>>

\* C5 (amended): when the container name is unused and a volume name of the
\* spec already exists, the run never emits Done; and when the inspect of a
\* volume finds it, the events emitted are one Pulling per pull-stream
\* element, then Building, then the Error naming that volume, so a consumer
\* that reads to the end receives at least two events, the last of them
\* that Error.
C5_VolumeConflictAfterBuilding ==
    \A r \in Runs :
        /\ ( /\ Has(r, "inspect_container", cfg[r].name, "404")
             /\ cfg[r].voluems \cap existing[r].volumes # {} ) =>
               \A i \in DOMAIN Emitted(r) : Emitted(r)[i] # Done
        /\ \A v \in cfg[r].voluems :
              Has(r, "inspect_volume", v, "ok") =>
                 /\ Last(Calls(r)) = Entry("inspect_volume", v, "ok")
                 /\ (~closed[r] /\ pc[r] = "finished") =>
                       Emitted(r) = Pullings(NumPulled(r))
                                      \o <<Building, Error(ConflictMsg(v))>>
                 /\ rxEnded[r] =>
                       delivered[r] = Pullings(NumPulled(r))
                                        \o <<Building, Error(ConflictMsg(v))>>

\* A run hit a volume that existed before it began, and its consumer read
\* the stream to the end.
C5_Witness ==
    \E r \in Runs, v \in VolNames :
        /\ v \in cfg[r].voluems \cap existing[r].volumes
        /\ cfg[r].name \notin existing[r].containers
        /\ Has(r, "inspect_volume", v, "ok")
        /\ rxEnded[r]
        /\ Len(delivered[r]) >= 2

\* C6: a failed runtime call is the last runtime call of its run, no Done
\* is ever emitted in that run, and with a consumer that keeps receiving
\* the run ends with exactly one Error event, which carries the message of
\* that failure.
C6_FirstFailureAborts ==
    \A r \in Runs :
        \A i \in DOMAIN Calls(r) :
            Failed(Calls(r)[i]) =>
                /\ i = Len(Calls(r))
                /\ \A k \in DOMAIN Emitted(r) : Emitted(r)[k] # Done
                /\ (~closed[r] /\ pc[r] = "finished") =>
                      /\ Last(Emitted(r)) = Error(MsgOf(Calls(r)[i]))
                      /\ Count(Emitted(r), LAMBDA ev : ev[1] = "Error") = 1
                /\ rxEnded[r] =>
                      /\ Last(delivered[r]) = Error(MsgOf(Calls(r)[i]))
                      /\ Count(delivered[r], LAMBDA ev : ev[1] = "Error") = 1

\* A run failed in a call made after the pull (a volume, create or start
\* call) and the consumer received its Error.
C6_Witness ==
    \E r \in Runs :
        /\ Len(Calls(r)) >= 3
        /\ Failed(Last(Calls(r)))
        /\ Last(Calls(r)).op \in {"create_volume", "create_container", "start_container"}
        /\ rxEnded[r]
        /\ Last(delivered[r]) = Error(MsgOf(Last(Calls(r))))

\* The steps of the task (runtime calls and sends), without the consumer's.
TaskTrace(r) == SelectSeq(trace[r], LAMBDA e : e.op # "receiver_dropped")

\* The place of a step in the pipeline.
Phase(e) ==
    CASE e.op = "inspect_container" -> 1
      [] e.op = "pull_next" -> 2
      [] e.op = "send" /\ e.arg = "Pulling" -> 2
      [] e.op = "send" /\ e.arg = "Building" -> 3
      [] e.op \in {"inspect_volume", "create_volume"} -> 4
      [] e.op = "create_container" -> 5
      [] e.op = "start_container" -> 6
      [] OTHER -> 7

\* C7: the steps of a run follow the pipeline order: inspect-container
\* first and once, then the pull, then the Building send, then for each
\* volume its inspect directly followed by its create, then
\* create-container, then start; a call is made only when every earlier
\* call succeeded; no mutating call precedes the not-found answer of
\* inspect-container; the Building send comes directly after the end of
\* the pull stream and before every volume call; create-container comes
\* after the creation of every volume of the spec.
C7_CallOrder ==
    \A r \in Runs :
        LET T == TaskTrace(r) IN
        /\ T # <<>> => T[1].op = "inspect_container"
        /\ \A i, j \in DOMAIN T :
              i < j =>
                /\ Phase(T[i]) <= Phase(T[j])
                /\ (T[i].op \in RuntimeOps /\ T[j].op \in RuntimeOps) => ~Failed(T[i])
                /\ (T[i].op \in RuntimeOps /\ Phase(T[j]) = 3) => ~Failed(T[i])
                /\ (T[i].op = "send" /\ Phase(T[j]) < 7) => T[i].res = "ok"
                /\ T[j].op \in {"inspect_container", "create_container",
                                "start_container"} => T[i].op # T[j].op
                /\ T[j].op \in {"inspect_volume", "create_volume"} =>
                      ~(T[i].op = T[j].op /\ T[i].arg = T[j].arg)
        /\ \A j \in DOMAIN T :
              /\ T[j].op \in MutatingOps =>
                    T[1] = Entry("inspect_container", cfg[r].name, "404")
              /\ (T[j].op = "send" /\ T[j].arg = "Building") =>
                    j > 1 /\ T[j - 1] = Entry("pull_next", "", "end")
              /\ (T[j].op = "send" /\ T[j].arg = "Pulling") =>
                    j > 1 /\ T[j - 1].op = "pull_next" /\ T[j - 1].res # "end"
              /\ Phase(T[j]) \in 4..6 =>
                    \E i \in 1..(j - 1) : T[i] = Entry("send", "Building", "ok")
              /\ T[j].op = "create_volume" =>
                    j > 1 /\ T[j - 1] = Entry("inspect_volume", T[j].arg, "404")
              /\ (T[j].op = "inspect_volume" /\ T[j].res = "404" /\ j < Len(T)) =>
                    (T[j + 1].op = "create_volume" /\ T[j + 1].arg = T[j].arg)
              /\ T[j].op = "create_container" =>
                    \A v \in cfg[r].voluems :
                        \E i \in 1..(j - 1) : T[i] = Entry("create_volume", v, "ok")
              /\ T[j].op = "start_container" =>
                    j > 1 /\ T[j - 1] = Entry("create_container", cfg[r].name, "ok")

\* A run with two volumes and a pulled image got as far as the start call.
C7_Witness ==
    \E r \in Runs :
        /\ Cardinality(cfg[r].voluems) = 2
        /\ NumPulled(r) >= 2
        /\ Has(r, "start_container", cfg[r].name, "ok")

\* C8: when Done was emitted, the run created every volume of the spec,
\* created the container and started it, all successfully; the runtime
\* holds them; and no create or start call of the run failed.
C8_DoneMeansStarted ==
    \A r \in Runs :
        (\E i \in DOMAIN Emitted(r) : Emitted(r)[i] = Done) =>
            /\ Has(r, "create_container", cfg[r].name, "ok")
            /\ Has(r, "start_container", cfg[r].name, "ok")
            /\ \A v \in cfg[r].voluems : Has(r, "create_volume", v, "ok")
            /\ cfg[r].name \in containers /\ cfg[r].name \in started
            /\ cfg[r].voluems \subseteq volumes
            /\ \A i \in DOMAIN trace[r] :
                  trace[r][i].op \in {"create_volume", "create_container",
                                      "start_container"} => trace[r][i].res = "ok"

\* Done was delivered to the consumer of a run that has volumes.
C8_Witness ==
    \E r \in Runs :
        /\ cfg[r].voluems # {}
        /\ delivered[r] # <<>>
        /\ Last(delivered[r]) = Done

\* The consumer went away while the task was in its pull loop.
DroppedWhilePulling(r) ==
    \E i \in DOMAIN trace[r] :
        /\ trace[r][i].op = "receiver_dropped"
        /\ trace[r][i].arg \in {"pull", "sendPulling", "flushPulling"}

\* C9: after the consumer dropped the receiver the task is abandoned: it
\* makes no create-volume, create-container or start call after the drop.
C9_NoCallAfterDrop ==
    \A r \in Runs :
        \A i, j \in DOMAIN trace[r] :
            (i < j /\ trace[r][i].op = "receiver_dropped") =>
                trace[r][j].op \notin {"create_volume", "create_container",
                                       "start_container"}

\* C10: when the consumer is dropped during the pull, the task makes no
\* volume, create-container or start call, nothing stays buffered and no
\* send is accepted after the drop, the block ends in an ordinary Err (never
\* Ok), and the task finishes after its Error send was refused.
C10_DropWhilePulling ==
    \A r \in Runs :
        DroppedWhilePulling(r) =>
            /\ \A i \in DOMAIN trace[r] :
                  trace[r][i].op \notin {"inspect_volume", "create_volume",
                                         "create_container", "start_container"}
            /\ cfg[r].name \in containers => cfg[r].name \in existing[r].containers
            /\ queue[r] = <<>>
            /\ \A i, j \in DOMAIN trace[r] :
                  (i < j /\ trace[r][i].op = "receiver_dropped") =>
                      ~(trace[r][j].op = "send" /\ trace[r][j].res = "ok")
            /\ outcome[r] # OkResult
            /\ pc[r] \notin {"flushBuilding", "volumes", "createVolume", "start"}
            /\ pc[r] = "finished" =>
                  /\ outcome[r] \in {ErrResult(SendMsg),
                                     ErrResult(DockerMsg("pull_next", ""))}
                  /\ Last(trace[r]) = Entry("send", "Error", "disconnected")

\* A task whose consumer went away during the pull has finished.
C10_Witness ==
    \E r \in Runs :
        /\ DroppedWhilePulling(r)
        /\ delivered[r] # <<>>
        /\ pc[r] = "finished"


\* The tags of the events the channel accepted, in the order of the sends.
Accepted(r) ==
    LET s == SelectSeq(trace[r], LAMBDA e : e.op = "send" /\ e.res = "ok")
    IN  [i \in 1..Len(s) |-> s[i].arg]

Tags(seq) == [i \in 1..Len(seq) |-> seq[i][1]]

\* C11 (as stated): never more than 5 (the buffer) sent-but-not-received
\* events are buffered in the channel of a run.
C11_AtMostBufferPending ==
    \A r \in Runs : Len(queue[r]) <= Buffer

\* C11 (amended): never more than buffer + 1 = 6 events are buffered; the
\* sender parks exactly when its accepted message made the count 6 and
\* then stays suspended in that send while the consumer neither receives nor
\* goes away; while the consumer lives no accepted event is dropped: the
\* received and the buffered events together are as many as the accepted
\* ones.
C11_BoundedBackpressure ==
    \A r \in Runs :
        /\ Len(queue[r]) <= Buffer + 1
        /\ parked[r] =>
              /\ pc[r] \in {"flushPulling", "flushBuilding", "flushTerminal"}
              /\ ~closed[r]
              /\ Len(queue[r]) = Buffer + 1
        /\ pc[r] \in {"flushPulling", "flushBuilding", "flushTerminal"} =>
              (parked[r] \/ closed[r] \/ Len(queue[r]) <= Buffer)
        /\ ~closed[r] => Len(delivered[r]) + Len(queue[r]) = Len(Accepted(r))

\* The sender of a run is suspended in a send on a full channel.
C11_Witness ==
    \E r \in Runs :
        /\ parked[r]
        /\ pc[r] = "flushBuilding"
        /\ Len(queue[r]) = Buffer + 1

\* C12: the consumer receives the events in the order the sends were
\* accepted: what it has received is a prefix of the accepted sequence, and
\* while it lives the received events followed by the buffered ones are
\* exactly the accepted sequence, the terminal event of tx2 included.
C12_DeliveredInOrder ==
    \A r \in Runs :
        /\ Len(delivered[r]) <= Len(Accepted(r))
        /\ Tags(delivered[r]) = SubSeq(Accepted(r), 1, Len(delivered[r]))
        /\ ~closed[r] => Tags(Emitted(r)) = Accepted(r)

\* The terminal event sent through tx2 was received after a Pulling and a
\* Building event that had been buffered together with it.
C12_Witness ==
    \E r \in Runs :
        /\ Len(delivered[r]) >= 3
        /\ IsTerminal(Last(delivered[r]))
        /\ rxEnded[r]
        /\ \E i \in DOMAIN trace[r] :
              /\ trace[r][i] = Entry("send", "Done", "ok")
              /\ \A j \in 1..(i - 1) : trace[r][j].op # "receiver_dropped"


\* What a run has created so far, by its history.
CreatedVolumes(r) == {v \in VolNames : Has(r, "create_volume", v, "ok")}
ContainerCreatedBy(r) == Has(r, "create_container", cfg[r].name, "ok")

\* C14: no step removes anything from the runtime (the sets of containers,
\* volumes and started containers only grow), and whatever a run created
\* exists at every later moment, also after the run ended in Error or its
\* consumer went away.
C14_NothingRolledBack ==
    /\ [][/\ containers \subseteq containers'
          /\ volumes \subseteq volumes'
          /\ started \subseteq started']_vars
    /\ [](\A r \in Runs :
            /\ CreatedVolumes(r) \subseteq volumes
            /\ ContainerCreatedBy(r) => cfg[r].name \in containers)

\* A run that had created a volume and the container ended in Error (the
\* start failed) and both are still there.
C14_Witness ==
    \E r \in Runs :
        /\ pc[r] = "finished"
        /\ outcome[r] # OkResult
        /\ CreatedVolumes(r) # {}
        /\ ContainerCreatedBy(r)
        /\ cfg[r].name \in containers \ started
        /\ CreatedVolumes(r) \subseteq volumes


\* ------------------------------------------------------------- form specification
\* The form on its own: no provisioning run, an empty runtime.
FormInit == Init /\ containers = {} /\ volumes = {}

FormSpec == FormInit /\ [][FormNext /\ UNCHANGED <<pipelineVars, nsVars, listVars, appVars, envVars>>]_vars

\* ------------------------------------------------------------- namespacing specification
\* Volume namespacing as a function of (container name, volume name): two
\* pairs are drawn and the scheme of SubmitPressed is applied to both.
NsInit ==
    /\ PipelineInit /\ containers = {} /\ volumes = {}
    /\ FormIdle /\ ListIdle /\ AppIdle /\ EnvIdle
    /\ nsIn \in (StoredNames \X VolumeNames) \X (StoredNames \X VolumeNames)
    /\ nsOut = << >>

NsSpec == NsInit /\ [][ApplyNamespacing /\ UNCHANGED <<pipelineVars, formVars, listVars, appVars, envVars>>]_vars


\* C15: in the environment of a submitted spec there is exactly one string
\* NAME="VALUE" for every variable whose field holds a non-empty text, and
\* no string at all for a variable whose field is empty, whatever was typed
\* into the fields before.
C15_EnvFiltered ==
    submitted.some =>
        LET env == submitted.env
            txt == submitted.typed
        IN  /\ \A k \in DOMAIN txt :
                  IF txt[k] # << >>
                  THEN Cardinality({i \in DOMAIN env :
                          env[i] = k \o <<"=", "\"">> \o txt[k] \o <<"\"">>}) = 1
                  ELSE \A i \in DOMAIN env :
                          SubSeq(env[i], 1, Len(k) + 1) # k \o <<"=">>
            /\ Len(env) = Cardinality({k \in DOMAIN txt : txt[k] # << >>})
            /\ \A k \in DOMAIN submitted.config.variables :
                  submitted.config.variables[k] # << >>

\* A spec was submitted with one variable set and another left empty.
C15_Witness ==
    /\ submitted.some
    /\ Len(submitted.env) = 1
    /\ \E k \in DOMAIN submitted.typed : submitted.typed[k] = << >>
    /\ \E k \in DOMAIN submitted.typed : submitted.typed[k] = <<"x">>

\* C16: a submitted spec has the container name db-mgr__<name> and, for
\* every volume of the form's spec, one volume db-mgr__<name>__<volume>
\* with the same mount path, and no other volume; pressing submit changes
\* nothing in the form, so a second submit of the same form state hands out
\* the same names.
C16_VolumesNamespaced ==
    /\ [](submitted.some =>
            LET f == submitted.from
                c == submitted.config
                ns(v) == <<"d", "b", "-", "m", "g", "r", "_", "_">> \o f.name
                            \o <<"_", "_">> \o v
            IN  /\ c.name = <<"d", "b", "-", "m", "g", "r", "_", "_">> \o f.name
                /\ DOMAIN c.voluems = {ns(v) : v \in DOMAIN f.voluems}
                /\ \A v \in DOMAIN f.voluems : c.voluems[ns(v)] = f.voluems[v]
                /\ Cardinality(DOMAIN c.voluems) = Cardinality(DOMAIN f.voluems))
    /\ [][submitted' # submitted =>
            /\ data' = data /\ persist' = persist
            /\ submitted'.from = data.config]_vars
    /\ [][(submitted.some /\ submitted'.from = submitted.from) =>
            submitted'.config = submitted.config]_vars

\* A spec with two volumes was submitted.
C16_Witness ==
    /\ submitted.some
    /\ Cardinality(DOMAIN submitted.config.voluems) = 2
    /\ Len(submitted.from.name) = 2


\* ------------------------------------------------------------- listing specification
\* get_containers called up to twice on an unchanged runtime.
ListInit ==
    /\ PipelineInit /\ containers = {} /\ volumes = {}
    /\ FormIdle /\ NsIdle /\ AppIdle /\ EnvIdle
    /\ labelled \in SeqsOf(LabelledKinds, MaxListed)
    /\ listing = << >>

ListSpec == ListInit /\ [][GetContainers /\ UNCHANGED <<pipelineVars, formVars, nsVars, appVars, envVars>>]_vars


\* ------------------------------------------------------------- claims on namespacing and listing
\* C17 (as stated): two (container name, volume name) pairs that differ get
\* different namespaced volume names.
C17_NamespacingInjective ==
    (nsOut # << >> /\ nsIn[1] # nsIn[2]) => nsOut[1] # nsOut[2]

\* Ids of a listing result, in order.
Ids(result) == [j \in DOMAIN result |-> result[j].id]

\* Positions of the labelled containers a call must report: the summary has
\* an id, the inspect call succeeded, and id, name, image and state resolve.
Reportable(call) ==
    SelectSeq([i \in 1..Len(labelled) |-> i],
              LAMBDA i : /\ labelled[i].sid # None
                         /\ i \notin call.failing
                         /\ labelled[i].id # None
                         /\ labelled[i].name # None
                         /\ labelled[i].image # None
                         /\ labelled[i].state # None)

\* C18: get_containers returns an error exactly when the list call failed;
\* otherwise its result is, in the runtime's listing order and each once, the
\* labelled containers whose inspect succeeded and whose id, name, image and
\* state resolve; all others are omitted.
C18_EntriesOmittedNotFailed ==
    \A k \in DOMAIN listing :
        LET call == listing[k]
            want == Reportable(call)
        IN  /\ call.err <=> ~call.ok
            /\ call.ok =>
                  Ids(call.result) = [j \in DOMAIN want |-> labelled[want[j]].id]

C18_Witness ==
    /\ Len(listing) = 2
    /\ listing[1].ok /\ listing[1].failing = {}
    /\ Len(listing[1].result) = 2
    /\ \E i \in DOMAIN labelled : labelled[i].sid # None /\ ~Projectable(labelled[i])
    /\ listing[2].ok /\ listing[2].failing # {}
    /\ Len(listing[2].result) = 1

\* C19 (as stated): two successful calls on an unchanged runtime return the
\* same containers with the same derived fields.
C19_SameResultTwice ==
    (Len(listing) = 2 /\ listing[1].ok /\ listing[2].ok)
        => listing[1].result = listing[2].result

\* Position in labelled of the container with the given inspect id.
PositionOf(id) == CHOOSE i \in DOMAIN labelled : labelled[i].id = id

\* C19 (amended): two successful calls on an unchanged runtime agree on every
\* container both report (same id, name, state, image, variables, volumes)
\* and on their relative order; a container only one call reports is one
\* whose inspect call failed in the other; with the same inspect calls
\* failing the two results are equal.
C19_SameUpToInspectFailures ==
    (Len(listing) = 2 /\ listing[1].ok /\ listing[2].ok) =>
        LET a == listing[1]
            b == listing[2]
            Missing(x, y) ==
                \A i \in DOMAIN x.result :
                    (\A j \in DOMAIN y.result : y.result[j].id # x.result[i].id)
                        => PositionOf(x.result[i].id) \in y.failing
            InBoth(x, y) ==
                SelectSeq(x.result,
                          LAMBDA c : \E j \in DOMAIN y.result : y.result[j].id = c.id)
        IN  /\ InBoth(a, b) = InBoth(b, a)
            /\ Missing(a, b)
            /\ Missing(b, a)
            /\ a.failing = b.failing => a.result = b.result

C19_Witness ==
    /\ Len(listing) = 2
    /\ listing[1].ok /\ listing[2].ok
    /\ listing[1].result # listing[2].result
    /\ \E i \in DOMAIN listing[1].result, j \in DOMAIN listing[2].result :
          listing[1].result[i] = listing[2].result[j]


\* ------------------------------------------------------------- the application
\* Pull-stream elements per run explored under the application.
MaxUiPull == 1

\* Specs the form submits and lists get_containers answers with.
AppConfigs == {[name |-> "pg", voluems |-> {}], [name |-> "my", voluems |-> {"data"}]}

LoadedIds == {"c1", "c2"}

LoadedLists == {<< >>, <<"c1">>, <<"c1", "c2">>}

\* The tracker's streams agree with subscription(): the recipe is
\* identified by the hash of the spec's name.
Synced ==
    IF build_subscription.some
    THEN tracked.some /\ tracked.name = build_subscription.config.name
    ELSE ~tracked.some

\* The run a new stream gets.
NextRun == IF pc[FirstRun] = "idle" THEN FirstRun ELSE CHOOSE r \in Runs : r # FirstRun

Handle(msg) == handled' = Handled(msg, build_subscription.some)

\* Outstanding GetContainers commands up to which start/stop are explored.
MaxLoads == 1

\* ContainersLoaded that leaves the main view alone.
ContainersLoadedKeepsView(list) ==
    /\ loads > 0
    /\ loads' = loads - 1
    /\ app_containers' = list
    /\ Handle("ContainersLoaded")
    /\ UNCHANGED <<main_view, build_subscription, tracked>>

\* Message::StartContainer / StopContainer answered Ok: GetContainers (an
\* Err answer is Message::Error, which changes nothing).
ToggleContainer ==
    /\ loads < MaxLoads
    /\ loads' = loads + 1
    /\ Handle("GetContainers")
    /\ UNCHANGED <<main_view, build_subscription, app_containers, tracked>>

\* Message::ContainersLoaded
ContainersLoaded(list) ==
    /\ loads > 0
    /\ loads' = loads - 1
    /\ app_containers' = list
    /\ main_view' = ViewNone
    /\ Handle("ContainersLoaded")
    /\ UNCHANGED <<build_subscription, tracked>>

\* Message::Error from a failed get_containers: a dialog, no state change.
LoadError ==
    /\ loads > 0
    /\ loads' = loads - 1
    /\ Handle("Error")
    /\ UNCHANGED <<main_view, build_subscription, app_containers, tracked>>

\* Message::ViewContainer
ViewContainer(id) ==
    /\ main_view' =
          IF \E i \in DOMAIN app_containers : app_containers[i] = id
          THEN ViewOf(CHOOSE i \in DOMAIN app_containers :
                         /\ app_containers[i] = id
                         /\ \A j \in 1..(i - 1) : app_containers[j] # id)
          ELSE ViewNone
    /\ Handle("ViewContainer")
    /\ UNCHANGED <<build_subscription, app_containers, loads, tracked>>

\* Message::ShowCreateContainer
ShowCreateContainer ==
    /\ main_view' = CreateView("Ready")
    /\ Handle("ShowCreateContainer")
    /\ UNCHANGED <<build_subscription, app_containers, loads, tracked>>

\* Message::CreateContainer, sent by the form's submit button, which is
\* shown only in the Ready state.
SubmitContainer(config) ==
    /\ main_view = CreateView("Ready")
    /\ pc[NextRun] = "idle"
    /\ main_view' = CreateView("Creating")
    /\ build_subscription' = [some |-> TRUE, config |-> config]
    /\ Handle("CreateContainer")
    /\ UNCHANGED <<app_containers, loads, tracked>>

\* BuildError that keeps the subscription.
BuildErrorKeepsSubscription ==
    /\ main_view' = CreateView("Ready")
    /\ Handle("BuildError")
    /\ UNCHANGED <<build_subscription, app_containers, loads, tracked>>

\* Message::BuildError
BuildError ==
    /\ main_view' = CreateView("Ready")
    /\ build_subscription' = NoSubscription
    /\ Handle("BuildError")
    /\ UNCHANGED <<app_containers, loads, tracked>>

\* Message::BuildingContainer
BuildingContainer ==
    /\ main_view' = CreateView("Creating")
    /\ Handle("BuildingContainer")
    /\ UNCHANGED <<build_subscription, app_containers, loads, tracked>>

\* Message::CreatedContainer: the run is discarded, GetContainers issued.
CreatedContainer ==
    /\ build_subscription' = NoSubscription
    /\ loads' = loads + 1
    /\ Handle("CreatedContainer")
    /\ UNCHANGED <<main_view, app_containers, tracked>>

\* Message::PullingContainer
PullingContainer ==
    /\ main_view' = CreateView("Pulling")
    /\ Handle("PullingContainer")
    /\ UNCHANGED <<build_subscription, app_containers, loads, tracked>>

\* subscription(): the next event of the tracked stream becomes a message
\* and update handles it.
StreamEvent(r) ==
    /\ Synced
    /\ tracked.some /\ tracked.run = r
    /\ Receive(r)
    /\ LET ev == Head(queue[r])
       IN  CASE ev[1] = "Pulling" -> PullingContainer
             [] ev[1] = "Building" -> BuildingContainer
             [] ev[1] = "Done" -> CreatedContainer
             [] OTHER -> BuildError

\* The tracked stream is polled to its end.
StreamEnd(r) ==
    /\ tracked.some /\ tracked.run = r
    /\ ReceiveEnd(r)
    /\ UNCHANGED appVars

\* Tracker: a stream whose recipe subscription() no longer names is dropped.
TrackDrop ==
    /\ ~Synced
    /\ tracked.some
    /\ tracked' = NoStream
    /\ IF ~closed[tracked.run] /\ ~rxEnded[tracked.run]
       THEN DropReceiver(tracked.run)
       ELSE UNCHANGED pipelineVars
    /\ UNCHANGED <<main_view, build_subscription, app_containers, loads, handled>>

\* Tracker: a recipe with a new hash gets its stream: DockerSpawn::stream
\* calls create_container with the spec.
TrackStart ==
    /\ ~Synced
    /\ ~tracked.some
    /\ build_subscription.some
    /\ Start(NextRun)
    /\ cfg'[NextRun] = build_subscription.config
    /\ tracked' = [some |-> TRUE, name |-> build_subscription.config.name,
                   run |-> NextRun]
    /\ UNCHANGED <<main_view, build_subscription, app_containers, loads, handled>>

\* A user or command message; update runs once the tracker is in step.
Message ==
    /\ Synced
    /\ \/ \E list \in LoadedLists : ContainersLoaded(list)
       \/ LoadError
       \/ \E id \in LoadedIds : ViewContainer(id)
       \/ ToggleContainer
       \/ ShowCreateContainer
       \/ \E config \in AppConfigs : SubmitContainer(config)
    /\ UNCHANGED pipelineVars

\* A step of a spawned task.
TaskStep(r) ==
    /\ \/ InspectContainer(r)
       \/ PullNext(r) /\ (pullRes'[r] # "end" => NumPulled(r) < MaxUiPull)
       \/ SendEvent(r)
       \/ FlushEvent(r)
       \/ InspectVolume(r)
       \/ CreateVolume(r)
       \/ CreateContainer(r)
       \/ StartContainer(r)
    /\ UNCHANGED appVars

AppNext ==
    \/ Message
    \/ \E r \in Runs : StreamEvent(r)
    \/ \E r \in Runs : StreamEnd(r)
    \/ TrackDrop
    \/ TrackStart
    \/ \E r \in Runs : TaskStep(r)

AppInit == Init /\ containers = {"pg"} /\ volumes = {}

AppSpec == AppInit /\ [][AppNext /\ UNCHANGED <<formVars, nsVars, listVars, envVars>>]_vars

AppTypeOK ==
    /\ main_view \in {ViewNone} \cup {ViewOf(i) : i \in 1..2}
                       \cup {CreateView(b) : b \in {"Ready", "Pulling", "Creating"}}
    /\ loads \in 0..(MaxLoads + Cardinality(Runs))


\* ------------------------------------------------------------- claims on the application
Navigation == {"ViewContainer", "ShowCreateContainer"}

RunMessages == {"PullingContainer", "BuildingContainer", "CreatedContainer", "BuildError"}

\* C13 (as stated): once the operator navigated away (ViewContainer or
\* ShowCreateContainer) while a run was subscribed to, the run is cancelled:
\* no event of a run is handled next, or at least none that changes the
\* main view.
C13_NavigationCancelsRun ==
    [][(handled.msg \in Navigation /\ handled.during /\ handled'.msg \in RunMessages)
          => main_view' = main_view]_vars

\* C20: once update handled the terminal event of a run, build_subscription
\* is None; after BuildError the main view is the form in its Ready state;
\* and a CreateContainer message arriving with no run subscribed gets, as
\* soon as the tracker is in step, a newly started run with the submitted
\* spec that has delivered nothing yet.
C20_TerminalDiscardsRun ==
    /\ handled.msg \in {"BuildError", "CreatedContainer"} => ~build_subscription.some
    /\ handled.msg = "BuildError" => main_view = CreateView("Ready")
    /\ (handled.msg = "CreateContainer" /\ ~handled.during /\ Synced) =>
          /\ tracked.some
          /\ pc[tracked.run] # "idle"
          /\ cfg[tracked.run] = build_subscription.config
          /\ delivered[tracked.run] = << >>
          /\ ~closed[tracked.run]

\* A second run of the same name, started after the first one's Error was
\* handled, has sent its first event.
C20_Witness ==
    \E r1, r2 \in Runs :
        /\ r1 # r2
        /\ delivered[r1] # << >>
        /\ Last(delivered[r1])[1] = "Error"
        /\ cfg[r2].name = cfg[r1].name
        /\ handled.msg = "CreateContainer" /\ ~handled.during
        /\ tracked.some /\ tracked.run = r2
        /\ queue[r2] # << >>


\* ------------------------------------------------------------- claims on the form's tag and name
\* The tag a fresh selection of the image gets.
FirstTagOf(image) == IF image.tags = << >> THEN Latest ELSE Head(image.tags)

\* The form holds a fresh selection: no name, no variables, the image's
\* volumes and its first tag.
FreshlySelected(d) ==
    /\ d.some
    /\ d.config.name = << >>
    /\ d.config.variables = << >>
    /\ d.config.tag = FirstTagOf(d.image)

\* C21: whenever the form comes to hold an image (first selection or another
\* image), the tag is the image's first tag, "latest" if it offers none; a
\* step that changes the tag is either a fresh selection or changes nothing
\* but the tag, to one of the tags the image offers (SelectedTag).
C21_TagFromImage ==
    [][/\ (data'.some /\ (~data.some \/ data'.image # data.image))
            => FreshlySelected(data')
       /\ (data.some /\ data'.config.tag # data.config.tag) =>
            \/ FreshlySelected(data')
            \/ /\ data' = [data EXCEPT !.config.tag = data'.config.tag]
               /\ \E i \in DOMAIN data.image.tags : data'.config.tag = data.image.tags[i]
               /\ UNCHANGED <<persist, submitted, typed>>]_vars

C21_Witness ==
    /\ submitted.some
    /\ submitted.config.tag = Latest
    /\ data.some
    /\ Len(data.image.tags) > 1
    /\ data.config.tag = data.image.tags[2]
    /\ data.config.name # << >>

HasSpace(name) == \E i \in DOMAIN name : name[i] = " "

\* C22: the name the form holds never contains a space, and every submitted
\* spec was made from a non-empty name and has a container name that is
\* non-empty and free of spaces.
C22_NameWithoutSpaces ==
    /\ ~HasSpace(data.config.name)
    /\ submitted.some =>
          /\ submitted.from.name # << >>
          /\ submitted.config.name # << >>
          /\ ~HasSpace(submitted.config.name)

\* A name typed with a space was submitted.
C22_Witness ==
    /\ submitted.some
    /\ \E i \in DOMAIN submitted.config.name : submitted.config.name[i] = "-"
    /\ \E i \in DOMAIN submitted.from.name : submitted.from.name[i] = "-"


\* ------------------------------------------------------------- claims on conflict checks and volumes
Inspects == {"inspect_container", "inspect_volume"}

\* The create call that belongs to an inspect call.
CreateOf(op) == IF op = "inspect_container" THEN "create_container" ELSE "create_volume"

\* C23: for every inspect of a container or volume name: answered 404, the
\* run goes on (a volume's create call is the next call, a container's next
\* call is the pull); answered Ok, the run's error is the conflict message
\* with the inspected name; answered with another error, the run's error is
\* that error; and in both error cases no runtime call follows, so the
\* create call for the name is never issued.
C23_ConflictCheck ==
    \A r \in Runs :
        LET C == Calls(r) IN
        \A i \in DOMAIN C :
            C[i].op \in Inspects =>
                /\ C[i].res = "404" =>
                      /\ i = Len(C) => outcome[r] = Running
                      /\ i < Len(C) =>
                            IF C[i].op = "inspect_volume"
                            THEN C[i + 1].op = "create_volume" /\ C[i + 1].arg = C[i].arg
                            ELSE C[i + 1].op = "pull_next"
                /\ C[i].res = "ok" =>
                      /\ outcome[r] = ErrResult(ConflictMsg(C[i].arg))
                      /\ i = Len(C)
                /\ C[i].res = "err" =>
                      /\ outcome[r] = ErrResult(DockerMsg(C[i].op, C[i].arg))
                      /\ i = Len(C)
                /\ C[i].res # "404" =>
                      ~\E j \in DOMAIN C : C[j].op = CreateOf(C[i].op) /\ C[j].arg = C[i].arg

\* A run whose first volume was free and created and whose second volume's
\* inspect failed with an error other than 404, after the terminal event.
C23_Witness ==
    \E r \in Runs : \E v, w \in VolNames :
        /\ v # w
        /\ Has(r, "inspect_container", cfg[r].name, "404")
        /\ Has(r, "inspect_volume", v, "404")
        /\ Has(r, "create_volume", v, "ok")
        /\ Has(r, "inspect_volume", w, "err")
        /\ pc[r] = "finished"


\* The volume calls of a run, in the order they were made.
VolumeCalls(r) ==
    SelectSeq(trace[r], LAMBDA e : e.op \in {"inspect_volume", "create_volume"})

\* C24: the volume calls of a run are inspect/create pairs, one volume
\* after the other: a create follows the 404 inspect of the same volume, an
\* inspect follows the successful create of the previous volume and names a
\* volume not inspected before; a failed volume call is the last volume
\* call; and create_container is issued only after every volume of the spec
\* was created.
C24_VolumesOneAtATime ==
    \A r \in Runs :
        LET V == VolumeCalls(r)
            C == Calls(r)
        IN  /\ \A k \in DOMAIN V :
                  /\ Failed(V[k]) => k = Len(V)
                  /\ V[k].op = "create_volume" =>
                        /\ k > 1
                        /\ V[k - 1] = Entry("inspect_volume", V[k].arg, "404")
                  /\ V[k].op = "inspect_volume" =>
                        /\ k > 1 => V[k - 1].op = "create_volume" /\ V[k - 1].res = "ok"
                        /\ \A j \in 1..(k - 1) : V[j].arg # V[k].arg
                        /\ V[k].arg \in cfg[r].voluems
            /\ \A i \in DOMAIN C :
                  C[i].op = "create_container" =>
                      \A v \in cfg[r].voluems :
                          \E j \in 1..(i - 1) : C[j] = Entry("create_volume", v, "ok")

\* Two volumes were provisioned and create_container was issued.
C24_Witness ==
    \E r \in Runs :
        /\ Cardinality(cfg[r].voluems) = 2
        /\ \A v \in cfg[r].voluems : Has(r, "create_volume", v, "ok")
        /\ \E res \in {"ok", "err"} : Has(r, "create_container", cfg[r].name, res)


\* ------------------------------------------------------------- claims on a failing pull
\* The events of a run whose k-th pull element reported the error.
PullFailureEvents(k) == Pullings(k) \o <<Error(DockerMsg("pull_next", ""))>>

IsPrefix(s, t) == Len(s) <= Len(t) /\ SubSeq(t, 1, Len(s)) = s

\* C25: when the k-th element of the pull stream reports an error (the
\* earlier ones succeeded), no Building event is sent and no volume or
\* container call is made after the pull; what the consumer was handed is at
\* any time a prefix of k Pulling events followed by one Error, and a
\* consumer that reads the stream to its end received exactly these.
C25_PullErrorAborts ==
    \A r \in Runs :
        Has(r, "pull_next", "", "err") =>
            LET k == NumPulled(r) IN
            /\ k >= 1
            /\ \A i \in DOMAIN trace[r] :
                  trace[r][i].op \notin {"inspect_volume", "create_volume",
                                         "create_container", "start_container"}
            /\ Calls(r)[Len(Calls(r))] = Entry("pull_next", "", "err")
            /\ \A i \in DOMAIN Emitted(r) : Emitted(r)[i] # Building
            /\ IsPrefix(delivered[r], PullFailureEvents(k))
            /\ rxEnded[r] => delivered[r] = PullFailureEvents(k)

\* The third pull element failed and the consumer read the stream to its end.
C25_Witness ==
    \E r \in Runs :
        /\ Has(r, "pull_next", "", "err")
        /\ NumPulled(r) = 3
        /\ rxEnded[r]


\* ------------------------------------------------------------- concurrent runs
\* Pull-stream elements per run explored with two runs.
MaxRacePull == 1

\* The spec both runs are given.
RaceConfig == [name |-> "pg", voluems |-> {"data"}]

\* create_container called with the same spec, for either run at any time.
StartRace(r) ==
    /\ Start(r)
    /\ cfg'[r] = RaceConfig

\* The two tasks and their consumers.
RaceStep(r) ==
    \/ InspectContainer(r)
    \/ PullNext(r) /\ (pullRes'[r] # "end" => NumPulled(r) < MaxRacePull)
    \/ SendEvent(r)
    \/ FlushEvent(r)
    \/ InspectVolume(r)
    \/ CreateVolume(r)
    \/ CreateContainer(r)
    \/ StartContainer(r)
    \/ Receive(r)
    \/ ReceiveEnd(r)
    \/ DropReceiver(r)

RaceNext == \E r \in Runs : StartRace(r) \/ RaceStep(r)

RaceInit == Init /\ containers = {} /\ volumes = {}

RaceSpec == RaceInit /\ [][RaceNext /\ UNCHANGED <<formVars, nsVars, listVars, appVars, envVars>>]_vars


\* ------------------------------------------------------------- claims on concurrent runs
\* C26: of two runs with the same container name on one runtime, at most
\* one creates the container, at most one returns Ok and sends Done, and
\* when one of them returned Ok the other, once it returned, returned an error.
C26_OneWinner ==
    \A r1, r2 \in Runs :
        (r1 # r2 /\ pc[r1] # "idle" /\ pc[r2] # "idle" /\ cfg[r1].name = cfg[r2].name) =>
            /\ ~(ContainerCreatedBy(r1) /\ ContainerCreatedBy(r2))
            /\ ~(outcome[r1] = OkResult /\ outcome[r2] = OkResult)
            /\ ~(\E i \in DOMAIN Emitted(r1) : Emitted(r1)[i] = Done)
                  \/ ~(\E i \in DOMAIN Emitted(r2) : Emitted(r2)[i] = Done)
            /\ (outcome[r1] = OkResult /\ outcome[r2] # Running) =>
                  outcome[r2][1] = "Err"


\* Both runs found the name free and issued create_container; one was
\* rejected and delivered its Error, the other delivered Done.
C26_Witness ==
    \E r1, r2 \in Runs :
        /\ r1 # r2
        /\ cfg[r1].name = cfg[r2].name
        /\ Has(r1, "inspect_container", cfg[r1].name, "404")
        /\ Has(r2, "inspect_container", cfg[r2].name, "404")
        /\ Has(r1, "create_container", cfg[r1].name, "ok")
        /\ Has(r2, "create_container", cfg[r2].name, "err")
        /\ delivered[r1] # << >> /\ Last(delivered[r1]) = Done
        /\ delivered[r2] # << >> /\ Last(delivered[r2])[1] = "Error"


\* ------------------------------------------------------------- termination
\* A step of the spawned task of a run.
Task(r) ==
    \/ InspectContainer(r)
    \/ PullNext(r)
    \/ SendEvent(r)
    \/ FlushEvent(r)
    \/ InspectVolume(r)
    \/ CreateVolume(r)
    \/ CreateContainer(r)
    \/ StartContainer(r)

\* The executor keeps polling a task that can make a step (every runtime
\* call returns, the pull stream ends), and a consumer that has not dropped
\* the stream takes a buffered event.
Fairness ==
    \A r \in Runs :
        /\ WF_vars(Task(r) /\ UNCHANGED <<formVars, nsVars, listVars, appVars, envVars>>)
        /\ WF_vars(Receive(r) /\ UNCHANGED <<formVars, nsVars, listVars, appVars, envVars>>)

LiveSpec == Init /\ [][Next]_vars /\ Fairness

\* C27: every task that was started eventually terminates.
C27_TaskTerminates ==
    \A r \in Runs : (pc[r] # "idle") ~> (pc[r] = "finished")

\* The task is suspended in a send on a full channel.
C27_Witness ==
    \E r \in Runs :
        /\ parked[r]
        /\ pc[r] \in {"flushPulling", "flushBuilding", "flushTerminal"}
        /\ Len(queue[r]) = Buffer + 1


\* ------------------------------------------------------------- claims on the main view
\* C28 (as stated): while a run is subscribed to, the form is never in its
\* Ready state, so that update never handles a CreateContainer message that
\* arrives while build_subscription is Some.
C28_NoSubmitDuringRun ==
    ~(handled.msg = "CreateContainer" /\ handled.during)

\* C29: a main view of ViewContainer(i) always has i inside the containers
\* list (positions counted from 1 here, from 0 in the code).
C29_ViewIndexValid ==
    main_view.view = "ViewContainer" => main_view.index \in 1..Len(app_containers)

\* The second container is shown while a GetContainers command is still
\* to be answered.
C29_Witness ==
    /\ main_view = ViewOf(2)
    /\ loads > 0
    /\ handled.msg = "ViewContainer"


\* ------------------------------------------------------------- variables specification
\* A container is created with some variables and listed afterwards.
EnvInit ==
    /\ PipelineInit /\ containers = {} /\ volumes = {}
    /\ FormIdle /\ NsIdle /\ ListIdle /\ AppIdle
    /\ envTrip \in {[NoEnvTrip EXCEPT !.stage = "submitted", !.variables = m] : m \in EnvMaps}

EnvSpec ==
    EnvInit /\ [][(CreateWithEnv \/ ListEnv)
                    /\ UNCHANGED <<pipelineVars, formVars, nsVars, listVars, appVars>>]_vars

\* C30 (as stated): a container created with NAME mapped to VALUE is listed
\* with NAME mapped to exactly VALUE.
C30_EnvRoundTrip ==
    envTrip.stage = "listed" =>
        \A n \in DOMAIN envTrip.variables :
            /\ n \in DOMAIN envTrip.listed
            /\ envTrip.listed[n] = envTrip.variables[n]


\* ------------------------------------------------------------- a run repeated
\* Pull-stream elements per run explored with a repeated run.
MaxRerunPull == 1

\* The spec of the first run and of its repetition.
RerunConfig == [name |-> "pg", voluems |-> {"data", "conf"}]

\* create_container is called with the spec, and once that run is over and
\* has failed, with the identical spec again.
StartRerun(r) ==
    /\ r # FirstRun => pc[FirstRun] = "finished" /\ outcome[FirstRun][1] = "Err"
    /\ Start(r)
    /\ cfg'[r] = RerunConfig

RerunStep(r) ==
    \/ InspectContainer(r)
    \/ PullNext(r) /\ (pullRes'[r] # "end" => NumPulled(r) < MaxRerunPull)
    \/ SendEvent(r)
    \/ FlushEvent(r)
    \/ InspectVolume(r)
    \/ CreateVolume(r)
    \/ CreateContainer(r)
    \/ StartContainer(r)
    \/ Receive(r)
    \/ ReceiveEnd(r)
    \/ DropReceiver(r)

RerunNext == \E r \in Runs : StartRerun(r) \/ RerunStep(r)

RerunInit == Init /\ containers = {} /\ volumes = {}

RerunSpec ==
    RerunInit /\ [][RerunNext /\ UNCHANGED <<formVars, nsVars, listVars, appVars, envVars>>]_vars


\* ------------------------------------------------------------- claims on a repeated run
\* What an earlier run left in the runtime under a name of the spec.
Leftovers(r) ==
    ({cfg[r].name} \cap existing[r].containers) \cup (cfg[r].voluems \cap existing[r].volumes)

\* C31: when a run created a volume and then failed, a later run with the
\* identical spec never returns Ok and never sends Done; once it has
\* finished it returned an error, and unless one of its own runtime calls
\* failed or its consumer dropped the stream, that error is the name
\* conflict for a leftover container or volume.
C31_RerunFails ==
    \A r1, r2 \in Runs :
        (/\ r1 # r2
         /\ pc[r2] # "idle"
         /\ cfg[r2] = cfg[r1]
         /\ pc[r1] = "finished" /\ outcome[r1][1] = "Err"
         /\ \E v \in cfg[r1].voluems : Has(r1, "create_volume", v, "ok")
         /\ \E v \in cfg[r1].voluems : v \in existing[r2].volumes) =>
            /\ outcome[r2] # OkResult
            /\ \A i \in DOMAIN Emitted(r2) : Emitted(r2)[i] # Done
            /\ pc[r2] = "finished" => outcome[r2][1] = "Err"
            /\ (/\ outcome[r2] # Running
                /\ ~closed[r2]
                /\ \A i \in DOMAIN Calls(r2) : Calls(r2)[i].res # "err") =>
                   \E x \in Leftovers(r2) : outcome[r2] = ErrResult(ConflictMsg(x))

\* The first run created both volumes and failed in create_container; the
\* repeated run found the name free, pulled, and delivered the Error for a
\* leftover volume.
C31_Witness ==
    \E r1, r2 \in Runs :
        /\ r1 # r2
        /\ cfg[r2] = cfg[r1]
        /\ \A v \in cfg[r1].voluems : Has(r1, "create_volume", v, "ok")
        /\ Has(r1, "create_container", cfg[r1].name, "err")
        /\ Has(r2, "inspect_container", cfg[r2].name, "404")
        /\ \E v \in cfg[r2].voluems : Has(r2, "inspect_volume", v, "ok")
        /\ rxEnded[r2]
        /\ Last(delivered[r2])[1] = "Error"

====
